---- MODULE Spec2Model ----
(***************************************************************************)
(* Model of hospital_streamlit_app.py: the Streamlit script (file check,   *)
(* cached load_data, analyze_hospital_data) re-executed on every user      *)
(* interaction.  One action is one complete execution of the script.       *)
(*                                                                         *)
(* Representation.                                                         *)
(*   - A cell of the table is <<>> (pandas NaN / missing) or <<v>>.        *)
(*   - A Condition is <<k>> with k an integer; the integer order is the    *)
(*     lexicographic order of the condition names (groupby sorts keys).    *)
(*   - A float result is <<>> (NaN) or <<n, d>>, the exact quotient n/d    *)
(*     with d > 0.  Rounding of binary floating point is not modelled.     *)
(*   - A pandas Series indexed by key is a sequence of <<key, value>>.     *)
(***************************************************************************)
EXTENDS Integers, Sequences, FiniteSets, TLC

\* ------------------------------------------------------------------ bounds
MaxRows == 2
MaxConds == 11
MaxHeavy == 2

\* ------------------------------------------------------- program constants
TopLimit == 10
Percent == 100

\* ------------------------------------------------------------------- cells
NaN == <<>>

isnull(c) == c = NaN

Columns == {"Condition", "Outcome", "Cost", "Length_of_Stay"}

ConditionCells == {NaN, <<1>>, <<2>>}
OutcomeCells == {<<"Recovered">>, <<"Deceased">>}

\* the numeric columns of a row: a sound row, a row with a negative cost
\* and a negative stay, a row whose cost is missing
Measures ==
    {[Cost |-> <<100>>, Length_of_Stay |-> <<2>>],
     [Cost |-> <<-5>>,  Length_of_Stay |-> <<-1>>],
     [Cost |-> NaN,     Length_of_Stay |-> <<2>>]}

\* rows with a condition carry any measures; rows without one are sound
RowDomain ==
    {[Condition |-> c, Outcome |-> o, Cost |-> m.Cost,
      Length_of_Stay |-> m.Length_of_Stay] :
        c \in ConditionCells \ {NaN}, o \in OutcomeCells, m \in Measures}
    \cup
    {[Condition |-> NaN, Outcome |-> o, Cost |-> <<100>>,
      Length_of_Stay |-> <<2>>] : o \in OutcomeCells}

Datasets == UNION {[1..n -> RowDomain] : n \in 0..MaxRows}

\* ------------------------------------------------------------ float values
Frac(n, d) == <<n, d>>

\* a <= b for two non-NaN floats
LeqF(a, b) == a[1] * b[2] <= b[1] * a[2]

EqF(a, b) == a[1] * b[2] = b[1] * a[2]

\* ------------------------------------------------------ sequence utilities
RECURSIVE SeqSum(_)
SeqSum(s) == IF s = <<>> THEN 0 ELSE Head(s) + SeqSum(Tail(s))

Reverse(s) == [i \in 1..Len(s) |-> s[Len(s) + 1 - i]]

Take(s, n) == SubSeq(s, 1, IF n < Len(s) THEN n ELSE Len(s))

\* df[col] : the column as a sequence of cells
Col(df, col) == [i \in 1..Len(df) |-> df[i][col]]

\* Series.unique(): the distinct cells of a column, NaN included
unique(cells) == {cells[i] : i \in 1..Len(cells)}

\* Series.isin(values): NaN in values matches NaN cells
isin(c, values) == c \in values

\* df[df[col].isin(values)] : a new frame, rows in their original order
FilterIsin(df, col, values) == SelectSeq(df, LAMBDA r : isin(r[col], values))

\* variant: the outcome filter reads the unfiltered frame
applyFilters_unchained(df, condition_filter, outcome_filter) ==
    IF outcome_filter # {} THEN FilterIsin(df, "Outcome", outcome_filter)
    ELSE IF condition_filter # {}
         THEN FilterIsin(df, "Condition", condition_filter) ELSE df

\* lines 28-31
applyFilters(df, condition_filter, outcome_filter) ==
    LET d1 == IF condition_filter # {}
              THEN FilterIsin(df, "Condition", condition_filter) ELSE df
    IN  IF outcome_filter # {}
        THEN FilterIsin(d1, "Outcome", outcome_filter) ELSE d1

\* ------------------------------------------------------ column aggregations
NonNull(cells) == SelectSeq(cells, LAMBDA c : ~isnull(c))

Values(cells) ==
    LET nn == NonNull(cells) IN [i \in 1..Len(nn) |-> nn[i][1]]

\* Series.sum(): skips NaN, 0 for an empty or all-NaN column
sum(cells) == SeqSum(Values(cells))

\* Series.mean(): skips NaN, NaN for an empty or all-NaN column
mean(cells) ==
    LET v == Values(cells)
    IN  IF Len(v) = 0 THEN NaN ELSE Frac(SeqSum(v), Len(v))

\* (boolean Series).sum(): the number of True entries
CountTrue(flags) == SeqSum([i \in 1..Len(flags) |-> IF flags[i] THEN 1 ELSE 0])

\* variant: no guard for the empty frame
recovery_rate_unguarded(df) ==
    Frac(Len(SelectSeq(df, LAMBDA r : r.Outcome = <<"Recovered">>)) * Percent,
         Len(df))

\* line 42
recovery_rate(df) ==
    IF Len(df) > 0
    THEN Frac(Len(SelectSeq(df, LAMBDA r : r.Outcome = <<"Recovered">>)) * Percent,
              Len(df))
    ELSE Frac(0, 1)

\* line 45
total_cost(df) == sum(Col(df, "Cost"))

\* line 47: no guard for the empty frame
average_cost(df) == mean(Col(df, "Cost"))

\* ------------------------------------------------------------------ sorting
\* The two tie orders a build's default sort (kind="quicksort") can give:
\* ties kept in input order, or not.
SortKinds == {"stable", "unstable"}

RECURSIVE InsertDesc(_, _)
InsertDesc(sorted, e) ==
    IF sorted = <<>> THEN <<e>>
    ELSE IF LeqF(e[2], Head(sorted)[2])
         THEN <<Head(sorted)>> \o InsertDesc(Tail(sorted), e)
         ELSE <<e>> \o sorted

RECURSIVE StableSortDesc(_)
StableSortDesc(s) ==
    IF s = <<>> THEN <<>>
    ELSE InsertDesc(StableSortDesc(SubSeq(s, 1, Len(s) - 1)), s[Len(s)])

\* variant: sort_values() with its default, ascending=True
sort_values_ascending(series, kind) ==
    LET ok  == SelectSeq(series, LAMBDA e : e[2] # NaN)
        nan == SelectSeq(series, LAMBDA e : e[2] = NaN)
    IN  Reverse(StableSortDesc(ok)) \o nan

\* Series.sort_values(ascending=False): NaN values last (na_position="last")
sort_values(series, kind) ==
    LET ok  == SelectSeq(series, LAMBDA e : e[2] # NaN)
        nan == SelectSeq(series, LAMBDA e : e[2] = NaN)
    IN  (IF kind = "stable" THEN StableSortDesc(ok)
         ELSE StableSortDesc(Reverse(ok))) \o nan

\* variant: nsmallest(n)
nsmallest(series, n) == Take(Reverse(StableSortDesc(series)), n)

\* Series.nlargest(n): the n largest, descending, keep="first"
nlargest(series, n) == Take(StableSortDesc(series), n)

\* ----------------------------------------------------------------- grouping
RECURSIVE SortedKeys(_)
SortedKeys(S) ==
    IF S = {} THEN <<>>
    ELSE LET m == CHOOSE x \in S : \A y \in S : x <= y
         IN  <<m>> \o SortedKeys(S \ {m})

\* df.groupby("Condition"): sort=True, dropna=True; one <<key, rows>> a group
groupby(df) ==
    LET keys == SortedKeys({c[1] : c \in unique(Col(df, "Condition")) \ {NaN}})
    IN  [i \in 1..Len(keys) |->
            <<<<keys[i]>>, SelectSeq(df, LAMBDA r : r.Condition = <<keys[i]>>)>>]

groupby_sum(groups, col) ==
    [i \in 1..Len(groups) |-> <<groups[i][1], Frac(sum(Col(groups[i][2], col)), 1)>>]

groupby_mean(groups, col) ==
    [i \in 1..Len(groups) |-> <<groups[i][1], mean(Col(groups[i][2], col))>>]

\* lines 66, 74, 96
cost_by_condition(groups, kind) == sort_values(groupby_sum(groups, "Cost"), kind)

avg_cost_by_condition(groups, kind) == sort_values(groupby_mean(groups, "Cost"), kind)

avg_stay_by_condition(groups, kind) ==
    sort_values(groupby_mean(groups, "Length_of_Stay"), kind)

\* Series.value_counts(): NaN dropped, keys found in order of first
\* occurrence, then sorted by descending count
RECURSIVE FirstSeen(_)
FirstSeen(cells) ==
    IF cells = <<>> THEN <<>>
    ELSE <<Head(cells)>>
         \o FirstSeen(SelectSeq(Tail(cells), LAMBDA c : c # Head(cells)))

value_counts(cells, kind) ==
    LET keys == FirstSeen(NonNull(cells))
    IN  sort_values(
            [i \in 1..Len(keys) |->
                <<keys[i], Frac(Len(SelectSeq(cells, LAMBDA c : c = keys[i])), 1)>>],
            kind)

\* line 55
outcome_counts(df, kind) == value_counts(Col(df, "Outcome"), kind)

\* line 87
disease_counts(df, kind) == nlargest(value_counts(Col(df, "Condition"), kind), TopLimit)

\* ---------------------------------------------------------- data integrity
\* line 106: df.isnull().sum().sum()
missing_values(df) ==
    SeqSum([i \in 1..Len(df) |-> Cardinality({c \in Columns : isnull(df[i][c])})])

\* variant: duplicated(keep=False) marks every row that occurs twice
duplicate_records_keep_false(df) ==
    CountTrue([i \in 1..Len(df) |-> \E j \in 1..Len(df) : j # i /\ df[j] = df[i]])

\* line 107: df.duplicated() marks a row equal to an earlier one (NaN = NaN)
duplicate_records(df) ==
    CountTrue([i \in 1..Len(df) |-> \E j \in 1..(i - 1) : df[j] = df[i]])

\* lines 108-109: a comparison with NaN is False
invalid_costs(df) ==
    CountTrue([i \in 1..Len(df) |-> ~isnull(df[i].Cost) /\ df[i].Cost[1] < 0])

invalid_stay(df) ==
    CountTrue([i \in 1..Len(df) |->
        ~isnull(df[i].Length_of_Stay) /\ df[i].Length_of_Stay[1] < 0])

\* line 110
total_issues(missing, duplicates, costs, stays) ==
    missing + duplicates + costs + stays

\* line 111
data_accuracy(shape0, issues) ==
    IF shape0 > 0 THEN Frac((shape0 - issues) * Percent, shape0) ELSE Frac(0, 1)

\* ------------------------------------------------------------- input files
MissingFile == [exists |-> FALSE, parses |-> FALSE, rows |-> <<>>]

\* a file that is present but makes pd.read_csv raise
CorruptFile == [exists |-> TRUE, parses |-> FALSE, rows |-> <<>>]

GoodFile(d) == [exists |-> TRUE, parses |-> TRUE, rows |-> d]

Files == {MissingFile, CorruptFile} \cup {GoodFile(d) : d \in Datasets}

\* Files with many conditions: conditions n, n-1, ..., 1 once each with
\* outcome Recovered, then the conditions of H once more with outcome Deceased.
TopRow(k, o) ==
    [Condition |-> <<k>>, Outcome |-> <<o>>,
     Cost |-> <<100>>, Length_of_Stay |-> <<2>>]

TopDataset(n, H) ==
    [i \in 1..n |-> TopRow(n + 1 - i, "Recovered")]
    \o [i \in 1..Cardinality(H) |-> TopRow(SortedKeys(H)[i], "Deceased")]

TopFiles ==
    UNION {{GoodFile(TopDataset(n, H)) :
                H \in {h \in SUBSET (1..n) : Cardinality(h) <= MaxHeavy}} :
           n \in 0..MaxConds}

\* ------------------------------------------------------------------- state
VARIABLES
    file,              \* "hospital data analysis.csv" on disk
    sort_kind,         \* the tie order of the build's default sort
    cache,             \* st.cache_data's entry for load_data(file_path)
    condition_filter,  \* the sidebar multiselects of the last run
    outcome_filter,
    errors,            \* st.error messages on the page of the last run
    out,               \* what analyze_hospital_data computed in the last run
    restored           \* history: this run cleared the last selection after a
                       \* run that showed fewer rows than were loaded

vars ==
    <<file, sort_kind, cache, condition_filter, outcome_filter, errors, out,
      restored>>

NotCached == [hit |-> FALSE, ok |-> FALSE, rows |-> <<>>]

NotRun == [ran |-> FALSE]

NotFoundMsg == "Dataset not found! Please upload the correct CSV file."

LoadErrorMsg == "Error loading the dataset"

\* line 125
os_path_exists(f) == f.exists

\* line 13
read_csv(f) == [raised |-> ~f.parses, rows |-> f.rows]

\* variant: the except branch returns None without calling st.error
load_data_silent(f, c) ==
    IF c.hit
    THEN [ok |-> c.ok, rows |-> c.rows, error |-> FALSE, cache |-> c]
    ELSE IF read_csv(f).raised
         THEN [ok |-> FALSE, rows |-> <<>>, error |-> FALSE,
               cache |-> [hit |-> TRUE, ok |-> FALSE, rows |-> <<>>]]
         ELSE [ok |-> TRUE, rows |-> read_csv(f).rows, error |-> FALSE,
               cache |-> [hit |-> TRUE, ok |-> TRUE, rows |-> read_csv(f).rows]]

\* lines 10-16.  ok: the result is a frame, not None.  error: st.error was
\* called (or replayed from the cache entry).
load_data(f, c) ==
    IF c.hit
    THEN [ok |-> c.ok, rows |-> c.rows, error |-> ~c.ok, cache |-> c]
    ELSE IF read_csv(f).raised
         THEN [ok |-> FALSE, rows |-> <<>>, error |-> TRUE,
               cache |-> [hit |-> TRUE, ok |-> FALSE, rows |-> <<>>]]
         ELSE [ok |-> TRUE, rows |-> read_csv(f).rows, error |-> FALSE,
               cache |-> [hit |-> TRUE, ok |-> TRUE, rows |-> read_csv(f).rows]]

\* lines 24-25: what one interaction can make of a multiselect: one option
\* added, one removed, all cleared, or nothing changed
multiselect(old, options) ==
    {old \cup {x} : x \in options} \cup {old \ {x} : x \in old} \cup {{}}

\* lines 18-117, display calls left out.  df is rebound to the filtered
\* frame at lines 29 and 31; every later line reads that frame.
analyze_hospital_data(l, cf, of, kind) ==
    IF ~l.ok THEN NotRun
    ELSE LET df         == applyFilters(l.rows, cf, of)
             groups     == groupby(df)
             missing    == missing_values(df)
             duplicates == duplicate_records(df)
             costs      == invalid_costs(df)
             stays      == invalid_stay(df)
             issues     == total_issues(missing, duplicates, costs, stays)
         IN  [ran                   |-> TRUE,
              df                    |-> df,
              total_patients        |-> Len(df),
              recovery_rate         |-> recovery_rate(df),
              total_cost            |-> total_cost(df),
              average_cost          |-> average_cost(df),
              outcome_counts        |-> outcome_counts(df, kind),
              cost_by_condition     |-> cost_by_condition(groups, kind),
              avg_cost_by_condition |-> avg_cost_by_condition(groups, kind),
              disease_counts        |-> disease_counts(df, kind),
              avg_stay_by_condition |-> avg_stay_by_condition(groups, kind),
              missing_values        |-> missing,
              duplicate_records     |-> duplicates,
              invalid_costs         |-> costs,
              invalid_stay          |-> stays,
              total_issues          |-> issues,
              data_accuracy         |-> data_accuracy(Len(df), issues)]

Start ==
    /\ sort_kind \in SortKinds
    /\ cache = NotCached
    /\ condition_filter = {}
    /\ outcome_filter = {}
    /\ errors = <<>>
    /\ out = NotRun
    /\ restored = FALSE

Init == file \in Files /\ Start

\* A run of the script that takes lines 125-126.
FileNotFound ==
    /\ ~os_path_exists(file)
    /\ errors' = <<NotFoundMsg>>
    /\ out' = NotRun
    /\ restored' = FALSE
    /\ UNCHANGED <<file, sort_kind, cache, condition_filter, outcome_filter>>

\* A run of the script in which load_data returns None (lines 128-129, 19-20).
LoadFailed ==
    /\ os_path_exists(file)
    /\ LET l == load_data(file, cache)
       IN  /\ ~l.ok
           /\ cache' = l.cache
           /\ errors' = IF l.error THEN <<LoadErrorMsg>> ELSE <<>>
           /\ out' = analyze_hospital_data(l, {}, {}, sort_kind)
    /\ restored' = FALSE
    /\ UNCHANGED <<file, sort_kind, condition_filter, outcome_filter>>

\* variant: the filters narrow the cached frame itself
Dashboard_in_place(cf, of) ==
    /\ os_path_exists(file)
    /\ LET l == load_data(file, cache)
       IN  /\ l.ok
           /\ errors' = IF l.error THEN <<LoadErrorMsg>> ELSE <<>>
           /\ out' = analyze_hospital_data(l, cf, of, sort_kind)
           /\ cache' = [l.cache EXCEPT !.rows = out'.df]
           /\ restored' = (cf = {} /\ of = {} /\ out.ran /\ Len(out.df) < Len(l.rows))
    /\ condition_filter' = cf
    /\ outcome_filter' = of
    /\ UNCHANGED <<file, sort_kind>>

\* A run of the script that renders the dashboard with the selections cf, of
\* (lines 128-129, 18-117).
Dashboard(cf, of) ==
    /\ os_path_exists(file)
    /\ LET l == load_data(file, cache)
       IN  /\ l.ok
           /\ cache' = l.cache
           /\ errors' = IF l.error THEN <<LoadErrorMsg>> ELSE <<>>
           /\ out' = analyze_hospital_data(l, cf, of, sort_kind)
           /\ restored' = (cf = {} /\ of = {} /\ out.ran /\ Len(out.df) < Len(l.rows))
    /\ condition_filter' = cf
    /\ outcome_filter' = of
    /\ UNCHANGED <<file, sort_kind>>

\* the first run of the session: both multiselects hold their default, the
\* empty selection
FirstRun == ~out.ran /\ Dashboard({}, {})

\* the run that follows an interaction with the Condition multiselect
ConditionChanged ==
    /\ out.ran
    /\ \E cf \in multiselect(condition_filter, unique(Col(cache.rows, "Condition"))) :
            Dashboard(cf, outcome_filter)

\* the run that follows an interaction with the Outcome multiselect
OutcomeChanged ==
    /\ out.ran
    /\ \E of \in multiselect(outcome_filter, unique(Col(cache.rows, "Outcome"))) :
            Dashboard(condition_filter, of)

Next == FileNotFound \/ LoadFailed \/ FirstRun \/ ConditionChanged \/ OutcomeChanged

Spec == Init /\ [][Next]_vars

\* The same script on files with up to MaxConds conditions, the user
\* working the Outcome multiselect only.
InitTop == file \in TopFiles /\ Start

NextTop == FirstRun \/ OutcomeChanged

SpecTop == InitTop /\ [][NextTop]_vars

\* ======================================================================
\* Properties
\* ======================================================================
\* the frame the last run worked on after lines 28-31
View == out.df

ViewRows == 1..Len(View)

\* the distinct Condition values (missing is no value) of the view
ViewConditions == {View[i].Condition : i \in ViewRows} \ {NaN}

RowsOf(c) == {i \in ViewRows : View[i].Condition = c}

FirstRowOf(c) == CHOOSE i \in RowsOf(c) : \A j \in RowsOf(c) : i <= j

RECURSIVE ColSum(_, _)
ColSum(I, col) ==
    IF I = {} THEN 0
    ELSE LET i == CHOOSE x \in I : TRUE
         IN  (IF View[i][col] = NaN THEN 0 ELSE View[i][col][1])
             + ColSum(I \ {i}, col)

ColCount(I, col) == Cardinality({i \in I : View[i][col] # NaN})

RECURSIVE SeriesSum(_)
SeriesSum(series) ==
    IF series = <<>> THEN 0 ELSE Head(series)[2][1] + SeriesSum(Tail(series))

Keys(series) == {series[i][1] : i \in 1..Len(series)}

OneEntryPerCondition(series) ==
    Len(series) = Cardinality(ViewConditions) /\ Keys(series) = ViewConditions

\* non-increasing, undefined values after all defined ones
Descending(series) ==
    \A i, j \in 1..Len(series) :
        i < j => \/ series[j][2] = NaN
                 \/ series[i][2] # NaN /\ LeqF(series[j][2], series[i][2])

Tied(series, i, j) ==
    series[i][2] # NaN /\ series[j][2] # NaN /\ EqF(series[i][2], series[j][2])

TiesInFirstOccurrenceOrder(series) ==
    \A i, j \in 1..Len(series) :
        i < j /\ Tied(series, i, j)
            => FirstRowOf(series[i][1]) < FirstRowOf(series[j][1])

TiesInKeyOrder(series) ==
    \A i, j \in 1..Len(series) :
        i < j /\ Tied(series, i, j) => series[i][1][1] < series[j][1][1]

IsGroupSum(series, col) ==
    \A i \in 1..Len(series) :
        series[i][2] = Frac(ColSum(RowsOf(series[i][1]), col), 1)

IsGroupMean(series, col) ==
    \A i \in 1..Len(series) :
        LET I == RowsOf(series[i][1])
        IN  IF ColCount(I, col) = 0 THEN series[i][2] = NaN
            ELSE /\ series[i][2] # NaN
                 /\ EqF(series[i][2], Frac(ColSum(I, col), ColCount(I, col)))

IntegrityReport(o) ==
    <<o.missing_values, o.duplicate_records, o.invalid_costs, o.invalid_stay,
      o.total_issues, o.data_accuracy>>

Keeps(r) ==
    /\ condition_filter = {} \/ r.Condition \in condition_filter
    /\ outcome_filter = {} \/ r.Outcome \in outcome_filter

\* C1: the integrity report of a run is the report of the whole loaded
\* dataset, the same for every choice of the two filters.
IntegrityReportIgnoresFilters ==
    out.ran =>
        IntegrityReport(out)
            = IntegrityReport(
                analyze_hospital_data(load_data(file, cache), {}, {}, sort_kind))

\* C2: the view is exactly the loaded rows that pass both filters (an empty
\* selection passes every row), in their original order; it is no longer
\* than the dataset, and is the dataset when both selections are empty.
FilteredViewExact ==
    out.ran =>
        /\ View = SelectSeq(cache.rows, Keeps)
        /\ Len(View) <= Len(cache.rows)
        /\ (condition_filter = {} /\ outcome_filter = {} => View = cache.rows)

FilteredViewWitness ==
    /\ out.ran
    /\ condition_filter # {}
    /\ outcome_filter # {}
    /\ 0 < Len(View)
    /\ Len(View) < Len(cache.rows)
    /\ \E i \in 1..Len(cache.rows) :
            cache.rows[i].Condition \in condition_filter
            /\ cache.rows[i].Outcome \notin outcome_filter

\* C3: a run never changes the loaded dataset, and what a run computes is
\* determined by the file's dataset and that run's selections alone.
DatasetCarriesOver ==
    [][/\ cache.hit => cache' = cache
       /\ out'.ran =>
            /\ cache'.rows = file.rows
            /\ out' = analyze_hospital_data(
                        [ok |-> TRUE, rows |-> file.rows], condition_filter',
                        outcome_filter', sort_kind)
            /\ (condition_filter' = {} /\ outcome_filter' = {}
                    => out'.df = file.rows)]_vars

DatasetCarriesOverWitness ==
    restored /\ out.ran /\ View = file.rows /\ Len(View) > 1

\* C4: on an empty view recovery_rate, average_cost, data_accuracy and
\* total_cost are 0 and every grouped view is empty.
EmptyViewFallbacks ==
    out.ran /\ Len(View) = 0 =>
        /\ out.recovery_rate = Frac(0, 1)
        /\ out.average_cost # NaN
        /\ out.average_cost[1] = 0
        /\ out.data_accuracy = Frac(0, 1)
        /\ out.total_cost = 0
        /\ out.cost_by_condition = <<>>
        /\ out.avg_cost_by_condition = <<>>
        /\ out.avg_stay_by_condition = <<>>
        /\ out.disease_counts = <<>>
        /\ out.outcome_counts = <<>>

\* C5: recovery_rate is 100 * (rows with Outcome Recovered) / (rows), is 0
\* for a view without rows, and lies in [0, 100].
RecoveryRateDefined ==
    out.ran =>
        LET n == Len(View)
            r == Cardinality({i \in ViewRows : View[i].Outcome = <<"Recovered">>})
            rate == out.recovery_rate
        IN  /\ rate # NaN
            /\ rate[2] > 0
            /\ n = 0 => rate[1] = 0
            /\ n > 0 => rate[1] * n = Percent * r * rate[2]
            /\ 0 <= rate[1]
            /\ rate[1] <= Percent * rate[2]

RecoveryRateWitness ==
    /\ out.ran
    /\ Len(View) > 1
    /\ 0 < out.recovery_rate[1]
    /\ out.recovery_rate[1] < Percent * out.recovery_rate[2]

\* C6: total_cost equals the sum of the per-condition sums of
\* cost_by_condition, also when rows of the view have no Condition.
TotalCostIsSumOfGroups ==
    out.ran => out.total_cost = SeriesSum(out.cost_by_condition)

\* C7: disease_counts has min(10, distinct conditions) entries, each a
\* condition of the view with its row count, in non-increasing order of
\* count, and no condition left out has more rows than one returned.
TopConditionsCorrect ==
    out.ran =>
        LET top == out.disease_counts
            n   == Cardinality(ViewConditions)
        IN  /\ Len(top) = IF n < TopLimit THEN n ELSE TopLimit
            /\ Cardinality(Keys(top)) = Len(top)
            /\ \A i \in 1..Len(top) :
                    /\ top[i][1] \in ViewConditions
                    /\ top[i][2] = Frac(Cardinality(RowsOf(top[i][1])), 1)
            /\ \A i, j \in 1..Len(top) : i < j => LeqF(top[j][2], top[i][2])
            /\ \A c \in ViewConditions \ Keys(top) :
                    \A i \in 1..Len(top) : Cardinality(RowsOf(c)) <= top[i][2][1]

TopConditionsWitness ==
    /\ out.ran
    /\ Cardinality(ViewConditions) > TopLimit
    /\ Len(out.disease_counts) = TopLimit
    /\ out.disease_counts[1][2][1] > out.disease_counts[TopLimit][2][1]
    /\ \E c \in ViewConditions \ Keys(out.disease_counts) :
            Cardinality(RowsOf(c)) < out.disease_counts[1][2][1]

\* C8: total_issues is the plain sum of the null cells, the rows equal to an
\* earlier row, the rows with Cost < 0 and the rows with Length_of_Stay < 0
\* of the frame the report reads; data_accuracy is
\* 100 * (rows - total_issues) / rows, 0 without rows, and never above 100.
IntegrityFormula ==
    out.ran =>
        LET n  == Len(View)
            mv == Cardinality({<<i, c>> \in ViewRows \X Columns : View[i][c] = NaN})
            dr == Cardinality({i \in ViewRows : \E j \in ViewRows : j < i /\ View[j] = View[i]})
            ic == Cardinality({i \in ViewRows : View[i].Cost # NaN /\ View[i].Cost[1] < 0})
            is == Cardinality({i \in ViewRows :
                        View[i].Length_of_Stay # NaN /\ View[i].Length_of_Stay[1] < 0})
            acc == out.data_accuracy
        IN  /\ out.missing_values = mv
            /\ out.duplicate_records = dr
            /\ out.invalid_costs = ic
            /\ out.invalid_stay = is
            /\ out.total_issues = mv + dr + ic + is
            /\ acc[2] > 0
            /\ n = 0 => acc[1] = 0
            /\ n > 0 => acc[1] * n = Percent * (n - out.total_issues) * acc[2]
            /\ acc[1] <= Percent * acc[2]

\* a row counted by three counters at once, and a negative accuracy
IntegrityWitness ==
    /\ out.ran
    /\ out.data_accuracy[1] < 0
    /\ \E i \in ViewRows :
            /\ View[i].Cost # NaN /\ View[i].Cost[1] < 0
            /\ View[i].Length_of_Stay[1] < 0
            /\ \E j \in ViewRows : j < i /\ View[j] = View[i]

\* C9: while the file is missing or unreadable, every run shows an error
\* message and computes nothing.
LoadFailureBlocksPipeline ==
    [][~file.exists \/ ~file.parses => errors' # <<>> /\ out' = NotRun]_vars

LoadFailureWitness ==
    file.exists /\ ~file.parses /\ cache.hit /\ errors = <<LoadErrorMsg>> /\ ~out.ran

\* C10 as stated, on a build whose sort keeps the order of ties: the three
\* grouped views hold one entry per condition, in non-increasing order of the
\* aggregate, ties in order of first occurrence.
GroupedViewsTiesFirstOccurrence ==
    out.ran /\ sort_kind = "stable" =>
        \A series \in {out.cost_by_condition, out.avg_cost_by_condition,
                       out.avg_stay_by_condition} :
            /\ OneEntryPerCondition(series)
            /\ Descending(series)
            /\ TiesInFirstOccurrenceOrder(series)

\* C10 amended: one entry per condition carrying the group's sum or mean,
\* in non-increasing order of the aggregate (undefined means last); ties are
\* in ascending order of Condition when the sort keeps the order of ties.
GroupedViewsSorted ==
    out.ran =>
        /\ IsGroupSum(out.cost_by_condition, "Cost")
        /\ IsGroupMean(out.avg_cost_by_condition, "Cost")
        /\ IsGroupMean(out.avg_stay_by_condition, "Length_of_Stay")
        /\ \A series \in {out.cost_by_condition, out.avg_cost_by_condition,
                          out.avg_stay_by_condition} :
                /\ OneEntryPerCondition(series)
                /\ Descending(series)
                /\ sort_kind = "stable" => TiesInKeyOrder(series)

\* two tied groups whose key order is not their order of first occurrence,
\* next to a view whose groups are not tied
GroupedViewsWitness ==
    /\ out.ran
    /\ Len(out.cost_by_condition) > 1
    /\ Tied(out.cost_by_condition, 1, 2)
    /\ out.cost_by_condition[1][1][1] < out.cost_by_condition[2][1][1]
    /\ FirstRowOf(out.cost_by_condition[2][1]) < FirstRowOf(out.cost_by_condition[1][1])

====
